---- MODULE Spec2Model ----
(***************************************************************************)
(* rspleeter: segmentation of canonical PCM into overlapping inference     *)
(* windows (src/splitter.rs), the pipeline that drives it (src/main.rs)    *)
(* the re-encoding of one track (src/encode.rs) and the decoding of the    *)
(* input file (src/decode.rs).                                             *)
(*                                                                         *)
(* Four specifications share the definitions below:                        *)
(*   SpecPlan    the segment arithmetic of split_pcm_audio, as a function  *)
(*               of the sample rate and the per-channel sample count;      *)
(*   Spec        main: decode result, split_pcm_audio with the sample      *)
(*               data, then one encode call per track;                     *)
(*   SpecEncode  encode_pcm_data, primitive by primitive;                  *)
(*   SpecDecode  decode_audio, packet by packet and frame by frame, and    *)
(*               main after it.                                            *)
(***************************************************************************)
EXTENDS Integers, Sequences, FiniteSets, TLC

VARIABLES
    \* SpecPlan: inputs and the segments computed so far
    plan_rate, plan_n, plan_i, plan, plan_pc,
    \* main: position, command line, decoded audio, encode calls made
    main_pc, model_name, audio_extension, infer_mode, audio_data, encode_calls,
    \* split_pcm_audio: position, loop index i, index of the fetch loop,
    \* the window fed, the tensors of the last run, the accumulators,
    \* the value returned
    split_pc, seg_i, fetch_i, input_data, output_tensors,
    transformed_samples, split_result,
    \* history: segment index of every session.run, every failure met
    run_log, split_errors,
    \* encode_pcm_data: position, what the caller and the codec engine
    \* give, the encode context, the output stream, the batching locals,
    \* the resampler, the frames the encoder holds
    enc_pc, enc_env, encode_context, out_stream,
    num_batches, batch_i, sample_offset, pts, swr, enc_queue,
    \* history: codec engine calls, frames resampled, packets written,
    \* the error returned
    enc_ops, frames, packets_written, enc_error,
    \* decode_audio: position, the input file as the codec engine reads
    \* it, packets read so far, whether end of stream was sent, the frames
    \* the decoder holds, the resampler, the PCM buffer, the value returned
    dec_pc, dec_env, dec_pos, dec_flushing, dec_queue, dec_swr, pcm_data,
    dec_result,
    \* history: every codec engine call of the packet loop and its outcome
    dec_log

planVars == <<plan_rate, plan_n, plan_i, plan, plan_pc>>

mainVars == <<main_pc, model_name, audio_extension, infer_mode, audio_data,
              encode_calls>>

splitVars == <<split_pc, seg_i, fetch_i, input_data, output_tensors,
               transformed_samples, split_result, run_log, split_errors>>

encVars == <<enc_pc, enc_env, encode_context, out_stream, num_batches, batch_i,
             sample_offset, pts, swr, enc_queue, enc_ops, frames,
             packets_written, enc_error>>

decVars == <<dec_pc, dec_env, dec_pos, dec_flushing, dec_queue, dec_swr,
             pcm_data, dec_result, dec_log>>

vars == <<planVars, mainVars, splitVars, encVars, decVars>>

-----------------------------------------------------------------------------
(* Bounds of the model *)

\* largest scaled-down sample rate of SpecPlan (slice_length = 30 * rate)
MaxPlanRate == 2
\* largest per-channel sample count of SpecPlan at the scaled-down rates
MaxPlanN == 150

\* largest scaled-down sample rate of Spec (main itself passes 44100)
MaxScaledRate == 1
\* largest per-channel sample count main's decode stage yields in Spec
MaxN == 65

\* most packets the input file of SpecDecode holds
MaxPackets == 2
\* most samples per channel of a decoded frame in SpecDecode
MaxFrameSamples == 2

(* Program constants *)

\* main.rs: let pcm_sample_rate = 44100;
pcm_sample_rate == 44100
\* splitter.rs: audio_data.sample_rate * 30
SliceSeconds == 30
\* splitter.rs: audio_data.sample_rate * 5
ExtendSeconds == 5

Min(a, b) == IF a <= b THEN a ELSE b

-----------------------------------------------------------------------------
(* split_pcm_audio: the segment arithmetic, src/splitter.rs 101-134.       *)
(* n is input_samples_count_per_channel, rate is audio_data.sample_rate.   *)

slice_length(rate) == rate * SliceSeconds

extend_length(rate) == rate * ExtendSeconds

input_samples_count_per_channel(len, nb_channels) == len \div nb_channels

\* (a variant that rounds by adding one to the floor)
segment_count_floor_plus_one(n, rate) == n \div slice_length(rate) + 1
segment_count(n, rate) == (n + (slice_length(rate) - 1)) \div slice_length(rate)

current_offset(i, rate) == slice_length(rate) * i

\* (a variant that extends the first segment backwards too)
extend_length_at_begin_always(i, rate) == extend_length(rate)
extend_length_at_begin(i, rate) == IF i = 0 THEN 0 ELSE extend_length(rate)

extend_length_at_end(i, n, rate) ==
    IF i = segment_count(n, rate) - 1 THEN 0 ELSE extend_length(rate)

useful_start(i, rate) == extend_length_at_begin(i, rate)

useful_length(i, n, rate) ==
    IF i = segment_count(n, rate) - 1
    THEN n - current_offset(i, rate)
    ELSE slice_length(rate)

process_start(i, rate) == current_offset(i, rate) - extend_length_at_begin(i, rate)

\* (a variant without the .min(...) clamp of line 134)
process_length_unclamped(i, n, rate) ==
    useful_length(i, n, rate) + extend_length_at_begin(i, rate)
        + extend_length_at_end(i, n, rate)
process_length(i, n, rate) ==
    Min(useful_length(i, n, rate) + extend_length_at_begin(i, rate)
            + extend_length_at_end(i, n, rate),
        n - process_start(i, rate))

\* The values one iteration of the segment loop works with.
Segment(i, n, rate) ==
    [ index          |-> i,
      current_offset |-> current_offset(i, rate),
      process_start  |-> process_start(i, rate),
      process_length |-> process_length(i, n, rate),
      useful_start   |-> useful_start(i, rate),
      useful_length  |-> useful_length(i, n, rate) ]

-----------------------------------------------------------------------------
(* SpecPlan: the segment loop of split_pcm_audio without the sample data   *)

\* Per-channel sample counts tried at the program's own rate of 44100:
\* empty, one sample, one slice exactly, one slice and a sample, a last
\* segment shorter than the extend, and the 90 second scenario.
PlanInputsAtPcmRate ==
    { <<pcm_sample_rate, n>> :
        n \in { 0, 1,
                pcm_sample_rate * SliceSeconds,
                pcm_sample_rate * SliceSeconds + 1,
                pcm_sample_rate * (2 * SliceSeconds) + pcm_sample_rate * ExtendSeconds - 1,
                pcm_sample_rate * (3 * SliceSeconds) } }

PlanInputs ==
    ((1..MaxPlanRate) \X (0..MaxPlanN)) \cup PlanInputsAtPcmRate

PlanIdle ==
    /\ plan_rate = 0
    /\ plan_n = 0
    /\ plan_i = 0
    /\ plan = <<>>
    /\ plan_pc = "idle"

MainIdle ==
    /\ main_pc = "idle"
    /\ model_name = ""
    /\ audio_extension = ""
    /\ infer_mode = ""
    /\ audio_data = [nb_channels |-> 0, sample_rate |-> 0, samples |-> <<>>]
    /\ encode_calls = <<>>

SplitIdle ==
    /\ split_pc = "idle"
    /\ seg_i = 0
    /\ fetch_i = 0
    /\ input_data = <<>>
    /\ output_tensors = <<>>
    /\ transformed_samples = <<>>
    /\ split_result = [status |-> "none", tracks |-> <<>>]
    /\ run_log = <<>>
    /\ split_errors = <<>>

NoTimeBase == [num |-> 0, den |-> 1]

EncIdle ==
    /\ enc_pc = "idle"
    /\ enc_env = [pcm_len |-> 0, frame_size |-> 0, sample_rate |-> 0,
                  time_base |-> NoTimeBase, global_header |-> FALSE]
    /\ encode_context = [time_base |-> NoTimeBase, global_header |-> FALSE,
                         opened |-> FALSE, frame_size |-> 0]
    /\ out_stream = [time_base |-> NoTimeBase, created |-> FALSE]
    /\ num_batches = 0
    /\ batch_i = 0
    /\ sample_offset = 0
    /\ pts = 0
    /\ swr = [consumed |-> 0, emitted |-> 0]
    /\ enc_queue = <<>>
    /\ enc_ops = <<>>
    /\ frames = <<>>
    /\ packets_written = <<>>
    /\ enc_error = ""

NoDecodeResult ==
    [status |-> "none", error |-> "", has_parameters |-> FALSE, pcm_data |-> <<>>]

DecIdle ==
    /\ dec_pc = "idle"
    /\ dec_env = [packets |-> <<>>, stream_index |-> 0, sample_rate |-> 0,
                  nb_samples |-> 0]
    /\ dec_pos = 0
    /\ dec_flushing = FALSE
    /\ dec_queue = <<>>
    /\ dec_swr = [consumed |-> 0, emitted |-> 0]
    /\ pcm_data = <<>>
    /\ dec_result = NoDecodeResult
    /\ dec_log = <<>>

PlanInit ==
    /\ DecIdle
    /\ MainIdle
    /\ SplitIdle
    /\ EncIdle
    /\ \E in \in PlanInputs : plan_rate = in[1] /\ plan_n = in[2]
    /\ plan_i = 0
    /\ plan = <<>>
    /\ plan_pc = "loop"

\* one iteration of `for i in 0..segment_count`, lines 116-134
PlanSegment ==
    /\ plan_pc = "loop"
    /\ plan_i < segment_count(plan_n, plan_rate)
    /\ plan' = Append(plan, Segment(plan_i, plan_n, plan_rate))
    /\ plan_i' = plan_i + 1
    /\ UNCHANGED <<plan_rate, plan_n, plan_pc, mainVars, splitVars, encVars, decVars>>

\* the loop's exit
PlanReturn ==
    /\ plan_pc = "loop"
    /\ plan_i = segment_count(plan_n, plan_rate)
    /\ plan_pc' = "done"
    /\ UNCHANGED <<plan_rate, plan_n, plan_i, plan, mainVars, splitVars, encVars, decVars>>

PlanNext == PlanSegment \/ PlanReturn

SpecPlan == PlanInit /\ [][PlanNext]_vars

RECURSIVE SumUsefulLength(_, _)
\* useful_length summed over the first k segments of a plan
SumUsefulLength(p, k) ==
    IF k = 0 THEN 0 ELSE SumUsefulLength(p, k - 1) + p[k].useful_length

\* C1: segment_count is ceil(N / slice_length); the useful regions
\* [i*slice_length, i*slice_length + useful_length) of the segments follow
\* one another from 0 without gap or overlap, and once the loop has ended
\* there are segment_count of them and their lengths sum to N exactly.
SegmentsPartitionInput ==
    LET c  == segment_count(plan_n, plan_rate)
        sl == slice_length(plan_rate)
    IN  /\ c >= 0
        /\ c * sl >= plan_n
        /\ (c > 0 => (c - 1) * sl < plan_n)
        /\ \A k \in 1..Len(plan) :
              /\ plan[k].index = k - 1
              /\ plan[k].current_offset = (k - 1) * sl
              /\ plan[k].useful_length >= 0
              /\ plan[k].current_offset = SumUsefulLength(plan, k - 1)
        /\ (plan_pc = "done" =>
              /\ Len(plan) = c
              /\ SumUsefulLength(plan, Len(plan)) = plan_n)

\* C1 witness: a finished plan of three or more segments whose last one is
\* shorter than a slice.
SegmentsPartitionInputWitness ==
    /\ plan_pc = "done"
    /\ Len(plan) >= 3
    /\ plan[Len(plan)].useful_length < slice_length(plan_rate)
    /\ plan[Len(plan)].useful_length > 0

\* C3: segment 0 starts its window at 0, every later segment i at
\* i*slice_length - extend, which is never negative, and no window (the
\* last one included) ends past the input: process_start + process_length
\* <= N.
WindowWithinInput ==
    \A k \in 1..Len(plan) :
        LET s == plan[k] IN
        /\ (s.index = 0 => s.process_start = 0)
        /\ (s.index > 0 =>
              /\ s.process_start
                    = s.index * slice_length(plan_rate) - extend_length(plan_rate)
              /\ s.process_start >= 0)
        /\ s.process_length >= 0
        /\ s.process_start + s.process_length <= plan_n

\* C3 witness: a finished plan whose last segment is shorter than the
\* extend, so that the window of the segment before it is cut at N.
WindowWithinInputWitness ==
    /\ plan_pc = "done"
    /\ Len(plan) >= 2
    /\ plan[Len(plan)].useful_length < extend_length(plan_rate)
    /\ plan[Len(plan) - 1].process_start + plan[Len(plan) - 1].process_length = plan_n
    /\ plan[Len(plan)].process_start + plan[Len(plan)].process_length = plan_n

\* C4: at 44100 Hz and 3,969,000 samples per channel the loop computes
\* exactly three segments with the windows and useful regions listed.
NinetySecondScenario ==
    (plan_rate = 44100 /\ plan_n = 3969000 /\ plan_pc = "done") =>
        /\ slice_length(plan_rate) = 1323000
        /\ extend_length(plan_rate) = 220500
        /\ segment_count(plan_n, plan_rate) = 3
        /\ plan =
            << [ index |-> 0, current_offset |-> 0,
                 process_start |-> 0, process_length |-> 1543500,
                 useful_start |-> 0, useful_length |-> 1323000 ],
               [ index |-> 1, current_offset |-> 1323000,
                 process_start |-> 1102500, process_length |-> 1764000,
                 useful_start |-> 220500, useful_length |-> 1323000 ],
               [ index |-> 2, current_offset |-> 2646000,
                 process_start |-> 2425500, process_length |-> 1543500,
                 useful_start |-> 220500, useful_length |-> 1323000 ] >>

\* C4 witness: the scenario's loop has run to its end.
NinetySecondScenarioWitness ==
    /\ plan_rate = 44100
    /\ plan_n = 3969000
    /\ plan_pc = "done"
    /\ Len(plan) = 3


-----------------------------------------------------------------------------
(* The model catalog, src/splitter.rs 20-91 *)

MODEL_INFOS ==
    << [ name |-> "2stems", output_count |-> 2,
         output_names |-> <<"strided_slice_13", "strided_slice_23">>,
         track_names |-> <<"vocals", "accompaniment">> ],
       [ name |-> "4stems", output_count |-> 4,
         output_names |-> <<"strided_slice_13", "strided_slice_23",
                            "strided_slice_33", "strided_slice_43">>,
         track_names |-> <<"vocals", "drums", "bass", "other">> ],
       [ name |-> "5stems", output_count |-> 5,
         output_names |-> <<"strided_slice_18", "strided_slice_38",
                            "strided_slice_48", "strided_slice_28",
                            "strided_slice_58">>,
         track_names |-> <<"vocals", "drums", "bass", "piano", "other">> ],
       [ name |-> "2stems-16kHz", output_count |-> 2,
         output_names |-> <<"strided_slice_13", "strided_slice_23">>,
         track_names |-> <<"vocals", "accompaniment">> ],
       [ name |-> "4stems-16kHz", output_count |-> 4,
         output_names |-> <<"strided_slice_13", "strided_slice_23",
                            "strided_slice_33", "strided_slice_43">>,
         track_names |-> <<"vocals", "drums", "bass", "other">> ],
       [ name |-> "5stems-16kHz", output_count |-> 5,
         output_names |-> <<"strided_slice_18", "strided_slice_38",
                            "strided_slice_48", "strided_slice_28",
                            "strided_slice_58">>,
         track_names |-> <<"vocals", "drums", "bass", "piano", "other">> ] >>

existing_models == { MODEL_INFOS[m].name : m \in DOMAIN MODEL_INFOS }

\* SpleeterModelInfo::get_by_name: the first entry of that name
get_by_name(name) ==
    MODEL_INFOS[CHOOSE m \in DOMAIN MODEL_INFOS :
                    /\ MODEL_INFOS[m].name = name
                    /\ \A l \in 1..(m - 1) : MODEL_INFOS[l].name # name]

model_info == get_by_name(model_name)

-----------------------------------------------------------------------------
(* Samples and the inference stub *)

\* AudioInfo::new_pcm: nb_channels: 2
PcmChannels == 2

\* A sample carries where it comes from: an input sample its position in
\* audio_data.samples (seg and trk are -1), a sample computed by the stub
\* the run, the output and the position in that output tensor.
InputSample(k) == [seg |-> -1, trk |-> -1, pos |-> k]

InferModes == {"identity", "tagged"}

\* What session.run leaves for output `track` of the run on segment `call`:
\* a tensor of the window's length, either the window itself or a tensor
\* whose samples name the run, the output and their position.
Infer(mode, window, track, call) ==
    IF mode = "identity"
    THEN window
    ELSE [j \in 1..Len(window) |-> [seg |-> call, trk |-> track, pos |-> j - 1]]

\* (a variant that forgets the channel count in the window's start)
input_data_begin_per_channel(seg, nb_channels) == seg.process_start
\* lines 150-151
input_data_begin(seg, nb_channels) == seg.process_start * nb_channels
input_data_length(seg, nb_channels) == seg.process_length * nb_channels

\* line 153: the range is within audio_data.samples (else the slice panics)
input_range_ok(samples, seg, nb_channels) ==
    /\ 0 <= input_data_begin(seg, nb_channels)
    /\ 0 <= input_data_length(seg, nb_channels)
    /\ input_data_begin(seg, nb_channels) + input_data_length(seg, nb_channels)
          <= Len(samples)

\* lines 152-153: &audio_data.samples[begin..begin + length]
input_window(samples, seg, nb_channels) ==
    SubSeq(samples,
           input_data_begin(seg, nb_channels) + 1,
           input_data_begin(seg, nb_channels) + input_data_length(seg, nb_channels))

\* (a variant that takes the useful samples from the window's start)
fetch_begin_at_window_start(seg, nb_channels) == 0
\* lines 179-180
fetch_begin(seg, nb_channels) == seg.useful_start * nb_channels
fetch_len(seg, nb_channels) == seg.useful_length * nb_channels

\* line 181: the range is within the fetched tensor (else the slice panics)
fetch_range_ok(data, seg, nb_channels) ==
    /\ 0 <= fetch_begin(seg, nb_channels)
    /\ 0 <= fetch_len(seg, nb_channels)
    /\ fetch_begin(seg, nb_channels) + fetch_len(seg, nb_channels) <= Len(data)

\* line 181: &data.as_ref()[begin..begin + len]
useful_samples(data, seg, nb_channels) ==
    SubSeq(data,
           fetch_begin(seg, nb_channels) + 1,
           fetch_begin(seg, nb_channels) + fetch_len(seg, nb_channels))

\* main.rs 43-45: the extension of the input path (main has returned an
\* error before decoding if there is none)
AudioExtensions == {"wav", "mp3"}

\* (a variant that names the file after the output binding)
zipped_track_name_of_binding(info, k) == info.output_names[k]
\* main.rs 69-73: the name zipped with the k-th accumulator
zipped_track_name(info, k) == info.track_names[k]

\* main.rs 75: out_dir.join(format!("{}.{}", track_name, audio_extension))
output_path(track_name, extension) == <<"out_dir", "/", track_name, ".", extension>>

\* n and the segment of the current iteration
split_n ==
    input_samples_count_per_channel(Len(audio_data.samples), audio_data.nb_channels)
split_segment_count == segment_count(split_n, audio_data.sample_rate)
split_segment == Segment(seg_i, split_n, audio_data.sample_rate)

\* (a variant that hands back what has been accumulated so far)
split_error_result_partial(acc) == [status |-> "Ok", tracks |-> acc]
\* `?` in split_pcm_audio: Err(..) is returned and the locals are dropped
split_error_result(acc) == [status |-> "Err", tracks |-> <<>>]

-----------------------------------------------------------------------------
(* Spec: main (src/main.rs 49-89) around split_pcm_audio                   *)

Init ==
    /\ DecIdle
    /\ PlanIdle
    /\ SplitIdle
    /\ EncIdle
    /\ main_pc = "decode"
    /\ model_name \in existing_models
    /\ audio_extension \in AudioExtensions
    /\ infer_mode \in InferModes
    /\ audio_data = [nb_channels |-> 0, sample_rate |-> 0, samples |-> <<>>]
    /\ encode_calls = <<>>

\* main.rs 49-61: decode_audio returned Ok; the PCM bytes become n samples
\* per channel of interleaved stereo
MainDecodeOk ==
    /\ main_pc = "decode"
    /\ \E rate \in 1..MaxScaledRate, n \in 0..MaxN :
          audio_data' =
              [ nb_channels |-> PcmChannels,
                sample_rate |-> rate,
                samples |-> [k \in 1..(n * PcmChannels) |-> InputSample(k - 1)] ]
    /\ main_pc' = "split"
    /\ UNCHANGED <<model_name, audio_extension, infer_mode, encode_calls, planVars, splitVars, encVars, decVars>>

\* main.rs 50: decode_audio(..).context("Decode audio failed.")?
MainDecodeErr ==
    /\ main_pc = "decode"
    /\ main_pc' = "failed"
    /\ UNCHANGED <<model_name, audio_extension, infer_mode, audio_data, encode_calls,
                   planVars, splitVars, encVars, decVars>>

\* An error inside split_pcm_audio: the failure is noted, Err is returned.
SplitFail(what, log) ==
    /\ split_errors' =
          Append(split_errors, [segment |-> seg_i, runs |-> Len(log), what |-> what])
    /\ run_log' = log
    /\ split_result' = split_error_result(transformed_samples)
    /\ split_pc' = "returned"
    /\ UNCHANGED <<seg_i, fetch_i, input_data, output_tensors,
                   transformed_samples, mainVars, planVars, encVars, decVars>>

\* splitter.rs 98-114: the accumulators are created, the session is loaded
SplitCall ==
    /\ main_pc = "split"
    /\ split_pc = "idle"
    /\ transformed_samples' = [t \in 1..model_info.output_count |-> <<>>]
    /\ seg_i' = 0
    /\ split_pc' = "loop"
    /\ UNCHANGED <<fetch_i, input_data, output_tensors, split_result, run_log,
                   split_errors, mainVars, planVars, encVars, decVars>>

\* splitter.rs 109-110: SavedModelBundle::load fails
SplitLoadFail ==
    /\ main_pc = "split"
    /\ split_pc = "idle"
    /\ SplitFail("Cannot load session", run_log)

\* splitter.rs 116-171: the segment's window is computed, the input
\* binding resolved, the window sliced into a tensor and every output
\* binding resolved and requested
SplitSegmentBegin ==
    /\ split_pc = "loop"
    /\ seg_i < split_segment_count
    /\ IF input_range_ok(audio_data.samples, split_segment, audio_data.nb_channels)
       THEN /\ input_data' =
                  input_window(audio_data.samples, split_segment, audio_data.nb_channels)
            /\ split_pc' = "run"
       ELSE /\ input_data' = input_data
            /\ split_pc' = "panic"
    /\ UNCHANGED <<seg_i, fetch_i, output_tensors, transformed_samples,
                   split_result, run_log, split_errors, mainVars, planVars, encVars, decVars>>

\* splitter.rs 144-147, 155-157, 165-168: a binding or the tensor fails
SplitPrepareFail ==
    /\ split_pc = "loop"
    /\ seg_i < split_segment_count
    /\ \E what \in {"Get operation failed", "Get empty operation", "Get tensor failed."} :
          SplitFail(what, run_log)

\* splitter.rs 173: session.run
SplitRun ==
    /\ split_pc = "run"
    /\ output_tensors' =
          [t \in 1..model_info.output_count |-> Infer(infer_mode, input_data, t - 1, seg_i)]
    /\ run_log' = Append(run_log, seg_i)
    /\ fetch_i' = 0
    /\ split_pc' = "fetch"
    /\ UNCHANGED <<seg_i, input_data, transformed_samples, split_result,
                   split_errors, mainVars, planVars, encVars, decVars>>

\* splitter.rs 173: session.run(..).context("Run session failed")?
SplitRunFail ==
    /\ split_pc = "run"
    /\ SplitFail("Run session failed", Append(run_log, seg_i))

\* splitter.rs 175-182: one iteration of the fetch loop
SplitFetch ==
    /\ split_pc = "fetch"
    /\ fetch_i < model_info.output_count
    /\ LET data == output_tensors[fetch_i + 1] IN
       IF fetch_range_ok(data, split_segment, audio_data.nb_channels)
       THEN /\ transformed_samples' =
                  [transformed_samples EXCEPT ![fetch_i + 1] =
                      @ \o useful_samples(data, split_segment, audio_data.nb_channels)]
            /\ fetch_i' = fetch_i + 1
            /\ split_pc' = split_pc
       ELSE /\ transformed_samples' = transformed_samples
            /\ fetch_i' = fetch_i
            /\ split_pc' = "panic"
    /\ UNCHANGED <<seg_i, input_data, output_tensors, split_result, run_log,
                   split_errors, mainVars, planVars, encVars, decVars>>

\* splitter.rs 176-178: run_args.fetch(..).context("Get output failed")?
SplitFetchFail ==
    /\ split_pc = "fetch"
    /\ fetch_i < model_info.output_count
    /\ SplitFail("Get output failed", run_log)

\* splitter.rs 183-184: the end of one iteration of the segment loop
SplitSegmentEnd ==
    /\ split_pc = "fetch"
    /\ fetch_i = model_info.output_count
    /\ seg_i' = seg_i + 1
    /\ split_pc' = "loop"
    /\ UNCHANGED <<fetch_i, input_data, output_tensors, transformed_samples,
                   split_result, run_log, split_errors, mainVars, planVars, encVars, decVars>>

\* splitter.rs 185: Ok(transformed_samples)
SplitReturnOk ==
    /\ split_pc = "loop"
    /\ seg_i >= split_segment_count
    /\ split_result' = [status |-> "Ok", tracks |-> transformed_samples]
    /\ split_pc' = "returned"
    /\ UNCHANGED <<seg_i, fetch_i, input_data, output_tensors, transformed_samples,
                   run_log, split_errors, mainVars, planVars, encVars, decVars>>

\* main.rs 66-67: split_pcm_audio(..) returned Ok
MainSplitOk ==
    /\ main_pc = "split"
    /\ split_pc = "returned"
    /\ split_result.status = "Ok"
    /\ main_pc' = "encode"
    /\ UNCHANGED <<model_name, audio_extension, infer_mode, audio_data, encode_calls,
                   planVars, splitVars, encVars, decVars>>

\* main.rs 67: .context("Split pcm audio failed.")?
MainSplitErr ==
    /\ main_pc = "split"
    /\ split_pc = "returned"
    /\ split_result.status = "Err"
    /\ main_pc' = "failed"
    /\ UNCHANGED <<model_name, audio_extension, infer_mode, audio_data, encode_calls,
                   planVars, splitVars, encVars, decVars>>

\* main.rs 69-73: track_names zipped with the returned accumulators
zip_count == Min(Len(model_info.track_names), Len(split_result.tracks))

\* main.rs 75-85: one iteration of the encode loop; encode_pcm_data is
\* called with the track's samples as little-endian bytes
MainEncode(result) ==
    /\ main_pc = "encode"
    /\ Len(encode_calls) < zip_count
    /\ encode_calls' =
          Append(encode_calls,
                 [ track_name |-> zipped_track_name(model_info, Len(encode_calls) + 1),
                   output_path |->
                       output_path(zipped_track_name(model_info, Len(encode_calls) + 1),
                                   audio_extension),
                   samples |-> split_result.tracks[Len(encode_calls) + 1],
                   result |-> result ])
    /\ main_pc' = IF result = "Ok" THEN "encode" ELSE "failed"
    /\ UNCHANGED <<model_name, audio_extension, infer_mode, audio_data, planVars, splitVars, encVars, decVars>>

MainEncodeTrack == MainEncode("Ok")

\* main.rs 85: .context("Encode pcm data failed.")?
MainEncodeErr == MainEncode("Err")

\* main.rs 88: Ok(())
MainDone ==
    /\ main_pc = "encode"
    /\ Len(encode_calls) = zip_count
    /\ main_pc' = "done"
    /\ UNCHANGED <<model_name, audio_extension, infer_mode, audio_data, encode_calls,
                   planVars, splitVars, encVars, decVars>>

\* main.rs 63-88: everything main does once decode_audio has returned
AfterDecode ==
    \/ SplitCall \/ SplitLoadFail
    \/ SplitSegmentBegin \/ SplitPrepareFail
    \/ SplitRun \/ SplitRunFail
    \/ SplitFetch \/ SplitFetchFail
    \/ SplitSegmentEnd \/ SplitReturnOk
    \/ MainSplitOk \/ MainSplitErr
    \/ MainEncodeTrack \/ MainEncodeErr \/ MainDone

Next == MainDecodeOk \/ MainDecodeErr \/ AfterDecode

Spec == Init /\ [][Next]_vars

-----------------------------------------------------------------------------
(* Claims about split_pcm_audio and main, checked under Spec *)

IsPrefix(a, b) == Len(a) <= Len(b) /\ SubSeq(b, 1, Len(a)) = a

\* C2: with the identity stub split_pcm_audio never panics, every
\* accumulator is at all times a prefix of the interleaved input, and the
\* value returned holds output_count tracks, each equal to the input in
\* length and content.
IdentityRoundTrip ==
    infer_mode = "identity" =>
        /\ split_pc # "panic"
        /\ \A t \in DOMAIN transformed_samples :
              IsPrefix(transformed_samples[t], audio_data.samples)
        /\ (split_result.status = "Ok" =>
              /\ Len(split_result.tracks) = model_info.output_count
              /\ \A t \in 1..model_info.output_count :
                    split_result.tracks[t] = audio_data.samples)

\* C2 witness: the identity stub, five tracks returned, three segments of
\* which the last is shorter than the extend.
IdentityRoundTripWitness ==
    /\ infer_mode = "identity"
    /\ split_result.status = "Ok"
    /\ model_info.output_count = 5
    /\ split_segment_count = 3
    /\ split_n - 2 * slice_length(audio_data.sample_rate)
          < extend_length(audio_data.sample_rate)
    /\ split_result.tracks[5] = audio_data.samples

RECURSIVE ExpectedTrack(_, _)
\* Track t (from 0) after the segments 0..m-1: of each run's output t the
\* samples at the positions [useful_start, useful_start + useful_length)
\* per channel, in segment order.
ExpectedTrack(t, m) ==
    IF m = 0 THEN <<>>
    ELSE LET s  == m - 1
             nb == audio_data.nb_channels
             us == useful_start(s, audio_data.sample_rate)
             ul == useful_length(s, split_n, audio_data.sample_rate)
         IN  ExpectedTrack(t, m - 1)
               \o [j \in 1..(ul * nb) |-> [seg |-> s, trk |-> t, pos |-> us * nb + j - 1]]

\* The runs made so far are those of the segments 0, 1, 2, .. in that
\* order, one each; every accumulator holds exactly the useful samples of
\* the first few of them; a value returned as Ok holds those of all.
TrimmedInOrder ==
    split_pc # "idle" =>
        /\ run_log = [k \in 1..Len(run_log) |-> k - 1]
        /\ Len(run_log) <= split_segment_count
        /\ (split_result.status = "Ok" => Len(run_log) = split_segment_count)
        /\ (infer_mode = "tagged" =>
              /\ \A t \in DOMAIN transformed_samples :
                    \E m \in 0..Len(run_log) :
                        transformed_samples[t] = ExpectedTrack(t - 1, m)
              /\ (split_result.status = "Ok" =>
                    \A t \in DOMAIN split_result.tracks :
                        split_result.tracks[t]
                            = ExpectedTrack(t - 1, split_segment_count)))

\* A step leaves what the accumulators and the run log hold in place.
AppendOnly ==
    /\ IsPrefix(run_log, run_log')
    /\ \A t \in DOMAIN transformed_samples :
          /\ t \in DOMAIN transformed_samples'
          /\ IsPrefix(transformed_samples[t], transformed_samples'[t])

\* C5: inference runs once per segment in increasing index order; the
\* accumulators receive only the samples at the window positions
\* [useful_start, useful_start + useful_length) per channel, never a sample
\* of the extend context, and what they hold is never reordered or removed.
SegmentsInOrderTrimmed == []TrimmedInOrder /\ [][AppendOnly]_vars

\* C5 witness: the tagged stub, three runs, all tracks returned.
SegmentsInOrderTrimmedWitness ==
    /\ infer_mode = "tagged"
    /\ split_result.status = "Ok"
    /\ run_log = <<0, 1, 2>>
    /\ Len(split_result.tracks[1]) = Len(audio_data.samples)
    /\ split_result.tracks[1][1].pos = 0
    /\ split_result.tracks[1][Len(audio_data.samples)].pos
          >= extend_length(audio_data.sample_rate) * audio_data.nb_channels

\* C6: once a binding, the tensor, the run or a fetch has failed,
\* split_pcm_audio has returned Err without any accumulator, no further
\* run is made and no further segment begun, and main encodes no track.
SplitFailureIsFatal ==
    split_errors # <<>> =>
        /\ Len(split_errors) = 1
        /\ split_pc = "returned"
        /\ split_result.status = "Err"
        /\ split_result.tracks = <<>>
        /\ Len(run_log) = split_errors[1].runs
        /\ seg_i = split_errors[1].segment
        /\ encode_calls = <<>>
        /\ main_pc \in {"split", "failed"}

\* C6 witness: a fetch failed in a later segment after an earlier fetch of
\* the same segment had been appended, and main has ended in failure.
SplitFailureIsFatalWitness ==
    /\ split_errors # <<>>
    /\ split_errors[1].what = "Get output failed"
    /\ split_errors[1].segment >= 1
    /\ fetch_i >= 1
    /\ Len(transformed_samples[1]) > Len(transformed_samples[2])
    /\ Len(transformed_samples[2]) > 0
    /\ main_pc = "failed"

\* C11: every catalog entry names output_count bindings and output_count
\* tracks; no track is encoded before split_pcm_audio has returned every
\* segment's result; the k-th encode call writes the k-th accumulator,
\* fetched from the k-th output binding, to out_dir/<track_names[k]>.<ext>,
\* one call after the other in that order; and a run that ends Ok has
\* written exactly output_count files.
TracksEncodedInOrder ==
    /\ \A m \in DOMAIN MODEL_INFOS :
          /\ Len(MODEL_INFOS[m].output_names) = MODEL_INFOS[m].output_count
          /\ Len(MODEL_INFOS[m].track_names) = MODEL_INFOS[m].output_count
    /\ (encode_calls # <<>> =>
          /\ main_pc \in {"encode", "done", "failed"}
          /\ split_pc = "returned"
          /\ split_result.status = "Ok"
          /\ Len(run_log) = split_segment_count
          /\ Len(encode_calls) <= model_info.output_count)
    /\ \A k \in 1..Len(encode_calls) :
          LET c == encode_calls[k] IN
          /\ c.track_name = model_info.track_names[k]
          /\ c.output_path
                = <<"out_dir", "/", model_info.track_names[k], ".", audio_extension>>
          /\ c.samples = split_result.tracks[k]
          /\ Len(c.samples) = Len(audio_data.samples)
          /\ (infer_mode = "tagged" =>
                \A j \in 1..Len(c.samples) : c.samples[j].trk = k - 1)
          /\ (k < Len(encode_calls) => c.result = "Ok")
    /\ (main_pc = "done" =>
          /\ Len(encode_calls) = model_info.output_count
          /\ \A k \in 1..Len(encode_calls) : encode_calls[k].result = "Ok"
          /\ Cardinality({ encode_calls[k].output_path : k \in 1..Len(encode_calls) })
                = model_info.output_count)

\* C11 witness: a run of the five track model that ended Ok; its fourth
\* file is piano, written from the fourth output fetched.
TracksEncodedInOrderWitness ==
    /\ main_pc = "done"
    /\ infer_mode = "tagged"
    /\ model_info.output_count = 5
    /\ Len(audio_data.samples) > 0
    /\ Len(run_log) >= 2
    /\ Len(encode_calls) = 5
    /\ encode_calls[4].output_path = <<"out_dir", "/", "piano", ".", audio_extension>>
    /\ model_info.output_names[4] = "strided_slice_28"
    /\ encode_calls[4].samples[1].trk = 3

-----------------------------------------------------------------------------
(* encode_pcm_data, src/src/encode.rs 111-220                              *)

\* Bounds of SpecEncode
\* largest track, in samples per channel
MaxM == 5
\* largest frame size the encoder reports (0: the encoder takes frames of
\* any size and reports no preferred size, as the PCM encoders do)
MaxFrameSize == 3
\* largest sample rate of the codec parameters, scaled down
MaxCodecRate == 3
\* sample rate of the canonical PCM, scaled down (main passes 44100)
ScaledPcmRate == 2
\* the source time base's denominator is up to this multiple of the rate
MaxTimeBaseScale == 2
\* most samples the resampler, and most frames the encoder, may hold back
MaxDelay == 1

\* utils.rs 32-33: get_bytes_per_sample(AV_SAMPLE_FMT_FLT)
PcmSampleSize == 4

Max(a, b) == IF a >= b THEN a ELSE b

\* (a variant that reuses the source stream's time base for the encoder)
encode_time_base_of_source(env) == env.time_base
\* lines 48-51: AVRational { num: 1, den: codecpar.sample_rate }
encode_time_base(env) == [num |-> 1, den |-> env.sample_rate]

\* av_rescale_q with rounding to nearest (AV_ROUND_NEAR_INF), for a >= 0
av_rescale_q(a, bq, cq) ==
    LET b == bq.num * cq.den
        c == bq.den * cq.num
    IN  (a * b + c \div 2) \div c

\* (a variant that writes the packet as the encoder left it)
rescale_ts_skipped(pkt_pts, from_tb, to_tb) == pkt_pts
\* lines 75-78: packet.rescale_ts(encode_context.time_base, stream.time_base)
rescale_ts(pkt_pts, from_tb, to_tb) == av_rescale_q(pkt_pts, from_tb, to_tb)

\* lines 68-81: the packet the encoder makes of a frame, as it is written
written_packet(frame, ctx, stream) ==
    [ pts      |-> rescale_ts(frame.pts, ctx.time_base, stream.time_base),
      enc_pts  |-> frame.pts,
      from_tb  |-> ctx.time_base,
      to_tb    |-> stream.time_base ]

\* (a variant in which the encoder may keep packets after end of stream)
drain_counts_keeps_delay(queue, flush) ==
    Max(0, Len(queue) - MaxDelay)..Len(queue)

\* How many packets receive_packet hands out before it reports drain
\* (after a frame) or flushed (after end of stream).
drain_counts(queue, flush) ==
    IF flush THEN {Len(queue)}
    ELSE Max(0, Len(queue) - MaxDelay)..Len(queue)

\* write_frame, lines 58-84: send_frame, then every packet received is
\* rescaled and written. frame_opt is <<frame>> or <<>> (end of stream).
write_frame_queue(queue, frame_opt, j) ==
    SubSeq(queue \o frame_opt, j + 1, Len(queue \o frame_opt))

write_frame_packets(pkts, queue, frame_opt, j, ctx, stream) ==
    pkts \o [p \in 1..j |-> written_packet((queue \o frame_opt)[p], ctx, stream)]

\* lines 153-156
sample_size == PcmSampleSize * PcmChannels
num_samples(env) == env.pcm_len \div sample_size
size_per_batch(env) == env.frame_size * sample_size
\* (a variant that drops the last, shorter batch)
num_batches_floor(env) == num_samples(env) \div env.frame_size
num_batches_of(env) == (num_samples(env) + env.frame_size - 1) \div env.frame_size

\* (a variant that takes a full batch whatever is left)
process_samples_full(env, offset) == env.frame_size
\* line 162
process_samples(env, offset) == Min(env.frame_size, num_samples(env) - offset)

\* Samples the resampler can hand out once it has taken n more input
\* samples: all that the rate conversion yields of its input so far, less
\* what it has handed out already.
swr_available(sw, n, env) ==
    ((sw.consumed + n) * env.sample_rate) \div ScaledPcmRate - sw.emitted

\* convert_frame(Some(input)): when the rates differ the resampler may
\* hold back up to MaxDelay samples; a conversion of format alone hands
\* out every sample it is given
swr_convert_counts(sw, n, env) ==
    IF env.sample_rate = ScaledPcmRate
    THEN {swr_available(sw, n, env)}
    ELSE Max(0, swr_available(sw, n, env) - MaxDelay)..swr_available(sw, n, env)

\* (a variant that advances the timestamp by the input chunk's size)
next_pts_by_input(p, out_samples, in_samples) == p + in_samples
\* line 188: pts += output_frame.nb_samples
next_pts(p, out_samples, in_samples) == p + out_samples

-----------------------------------------------------------------------------
(* SpecEncode: one call of encode_pcm_data *)

\* lines 112, 154: pcm_data is any byte slice; main passes whole stereo
\* float samples, another caller may pass bytes past the last whole sample
TrailingBytes == {0, sample_size - 1}

\* What the call is given: the track's bytes, and what the codec engine
\* reports for the source's codec parameters and the output format.
EncodeInputs ==
    [ pcm_len       : { m * sample_size + r : m \in 0..MaxM, r \in TrailingBytes },
      frame_size    : 0..MaxFrameSize,
      sample_rate   : 1..MaxCodecRate,
      time_base     : { [num |-> 1, den |-> d] : d \in 1..(MaxCodecRate * MaxTimeBaseScale) },
      global_header : BOOLEAN ]

EncodeInit ==
    /\ DecIdle
    /\ PlanIdle
    /\ MainIdle
    /\ SplitIdle
    /\ enc_pc = "start"
    /\ enc_env \in { e \in EncodeInputs :
                        \E k \in 1..MaxTimeBaseScale : e.time_base.den = e.sample_rate * k }
    /\ encode_context = [time_base |-> NoTimeBase, global_header |-> FALSE,
                         opened |-> FALSE, frame_size |-> 0]
    /\ out_stream = [time_base |-> NoTimeBase, created |-> FALSE]
    /\ num_batches = 0
    /\ batch_i = 0
    /\ sample_offset = 0
    /\ pts = 0
    /\ swr = [consumed |-> 0, emitted |-> 0]
    /\ enc_queue = <<>>
    /\ enc_ops = <<>>
    /\ frames = <<>>
    /\ packets_written = <<>>
    /\ enc_error = ""

\* `?`: the error is returned, nothing later is done
EncodeFail(at, what) ==
    /\ enc_pc = at
    /\ enc_pc' = "err"
    /\ enc_error' = what
    /\ UNCHANGED <<enc_env, encode_context, out_stream, num_batches, batch_i,
                   sample_offset, pts, swr, enc_queue, enc_ops, frames,
                   packets_written, planVars, mainVars, splitVars, decVars>>

\* lines 119-122 with init_encode_context, lines 37-56
EncodeInitContext ==
    /\ enc_pc = "start"
    /\ encode_context' =
          [ time_base     |-> encode_time_base(enc_env),
            global_header |-> FALSE,
            opened        |-> TRUE,
            frame_size    |-> enc_env.frame_size ]
    /\ enc_ops' = enc_ops \o <<"find_encoder", "apply_codecpar", "set_time_base", "open">>
    /\ enc_pc' = "output"
    /\ UNCHANGED <<enc_env, out_stream, num_batches, batch_i, sample_offset, pts,
                   swr, enc_queue, frames, packets_written, enc_error,
                   planVars, mainVars, splitVars, decVars>>

EncodeInitContextFail ==
    \E what \in {"encoder not found.", "Apply codecpar failed.",
                 "Open codec context failed."} :
        EncodeFail("start", what)

\* lines 124-144: the output context, the global header flag, the stream
EncodeOpenOutput ==
    /\ enc_pc = "output"
    /\ encode_context' =
          [encode_context EXCEPT !.global_header = @ \/ enc_env.global_header]
    /\ out_stream' = [time_base |-> enc_env.time_base, created |-> TRUE]
    /\ enc_ops' = enc_ops \o <<"create_output">>
                     \o (IF enc_env.global_header THEN <<"set_flags">> ELSE <<>>)
                     \o <<"new_stream">>
    /\ enc_pc' = "header"
    /\ UNCHANGED <<enc_env, num_batches, batch_i, sample_offset, pts, swr,
                   enc_queue, frames, packets_written, enc_error,
                   planVars, mainVars, splitVars, decVars>>

EncodeOpenOutputFail ==
    EncodeFail("output", "Create output format context failed.")

\* lines 145-147
EncodeWriteHeader ==
    /\ enc_pc = "header"
    /\ enc_ops' = Append(enc_ops, "write_header")
    /\ enc_pc' = "batches"
    /\ UNCHANGED <<enc_env, encode_context, out_stream, num_batches, batch_i,
                   sample_offset, pts, swr, enc_queue, frames, packets_written,
                   enc_error, planVars, mainVars, splitVars, decVars>>

EncodeWriteHeaderFail == EncodeFail("header", "Write header failed.")

\* lines 149-159: the resample context and the batching arithmetic; with
\* samples_per_batch = 0 line 155 divides by zero (and, for an empty
\* track, first subtracts 1 from 0): the thread panics
EncodeInitBatches ==
    /\ enc_pc = "batches"
    /\ enc_ops' = Append(enc_ops, "init_resample")
    /\ IF encode_context.frame_size = 0
       THEN /\ enc_pc' = "panic"
            /\ num_batches' = num_batches
       ELSE /\ enc_pc' = "chunk"
            /\ num_batches' = num_batches_of(enc_env)
    /\ batch_i' = 0
    /\ sample_offset' = 0
    /\ pts' = 0
    /\ UNCHANGED <<enc_env, encode_context, out_stream, swr, enc_queue, frames,
                   packets_written, enc_error, planVars, mainVars, splitVars, decVars>>

EncodeInitBatchesFail ==
    EncodeFail("batches", "Init encode resample context failed.")

\* The frame convert_frame made is stamped, sent if it is not empty, and
\* the packets the encoder hands out are written: lines 177-186, 200-209.
EncodeFrame(kind, in_samples, k) ==
    LET frame == [pts |-> pts, nb_samples |-> k] IN
    /\ frames' = Append(frames,
                        [ kind |-> kind, chunk |-> batch_i, in_samples |-> in_samples,
                          nb_samples |-> k, pts |-> pts, sent |-> k > 0 ])
    /\ IF k > 0
       THEN \E j \in drain_counts(enc_queue \o <<frame>>, FALSE) :
               /\ enc_queue' = write_frame_queue(enc_queue, <<frame>>, j)
               /\ packets_written' =
                     write_frame_packets(packets_written, enc_queue, <<frame>>, j,
                                         encode_context, out_stream)
       ELSE UNCHANGED <<enc_queue, packets_written>>

\* lines 161-190: one iteration of the chunk loop
EncodeChunk ==
    /\ enc_pc = "chunk"
    /\ batch_i < num_batches
    /\ LET ps    == process_samples(enc_env, sample_offset)
           begin == batch_i * size_per_batch(enc_env)
           len   == ps * sample_size
       IN  IF ps >= 0 /\ begin + len <= enc_env.pcm_len
           THEN \E k \in swr_convert_counts(swr, ps, enc_env) :
                   /\ EncodeFrame("chunk", ps, k)
                   /\ swr' = [consumed |-> swr.consumed + ps, emitted |-> swr.emitted + k]
                   /\ pts' = next_pts(pts, k, ps)
                   /\ sample_offset' = sample_offset + ps
                   /\ batch_i' = batch_i + 1
                   /\ enc_pc' = enc_pc
           ELSE /\ enc_pc' = "panic"
                /\ UNCHANGED <<frames, enc_queue, packets_written, swr, pts,
                               sample_offset, batch_i>>
    /\ enc_ops' = Append(enc_ops, "convert_frame")
    /\ UNCHANGED <<enc_env, encode_context, out_stream, num_batches, enc_error,
                   planVars, mainVars, splitVars, decVars>>

EncodeChunkFail ==
    /\ batch_i < num_batches
    /\ \E what \in {"Convert pcm frame to output frame failed.", "Write frame failed."} :
          EncodeFail("chunk", what)

\* lines 192-210: the resampler is flushed; what it held back comes out
EncodeFlushResampler ==
    /\ enc_pc = "chunk"
    /\ batch_i >= num_batches
    /\ LET k == swr_available(swr, 0, enc_env) IN
          /\ EncodeFrame("flush", 0, k)
          /\ swr' = [swr EXCEPT !.emitted = @ + k]
    /\ enc_ops' = Append(enc_ops, "flush_resampler")
    /\ enc_pc' = "flush"
    /\ UNCHANGED <<enc_env, encode_context, out_stream, num_batches, batch_i,
                   sample_offset, pts, enc_error, planVars, mainVars, splitVars, decVars>>

EncodeFlushResamplerFail ==
    /\ batch_i >= num_batches
    /\ \E what \in {"Flushing resample context failed.", "Write frame failed."} :
          EncodeFail("chunk", what)

\* lines 212-213: write_frame(.., None) sends end of stream and writes
\* every packet the encoder still holds
EncodeFlushEncoder ==
    /\ enc_pc = "flush"
    /\ \E j \in drain_counts(enc_queue, TRUE) :
          /\ enc_queue' = write_frame_queue(enc_queue, <<>>, j)
          /\ packets_written' =
                write_frame_packets(packets_written, enc_queue, <<>>, j,
                                    encode_context, out_stream)
    /\ enc_ops' = Append(enc_ops, "flush_encoder")
    /\ enc_pc' = "trailer"
    /\ UNCHANGED <<enc_env, encode_context, out_stream, num_batches, batch_i,
                   sample_offset, pts, swr, frames, enc_error,
                   planVars, mainVars, splitVars, decVars>>

EncodeFlushEncoderFail == EncodeFail("flush", "Flush encode_context failed.")

\* lines 215-219
EncodeWriteTrailer ==
    /\ enc_pc = "trailer"
    /\ enc_ops' = Append(enc_ops, "write_trailer")
    /\ enc_pc' = "done"
    /\ UNCHANGED <<enc_env, encode_context, out_stream, num_batches, batch_i,
                   sample_offset, pts, swr, enc_queue, frames, packets_written,
                   enc_error, planVars, mainVars, splitVars, decVars>>

EncodeWriteTrailerFail == EncodeFail("trailer", "Write trailer failed.")

EncodeNext ==
    \/ EncodeInitContext \/ EncodeInitContextFail
    \/ EncodeOpenOutput \/ EncodeOpenOutputFail
    \/ EncodeWriteHeader \/ EncodeWriteHeaderFail
    \/ EncodeInitBatches \/ EncodeInitBatchesFail
    \/ EncodeChunk \/ EncodeChunkFail
    \/ EncodeFlushResampler \/ EncodeFlushResamplerFail
    \/ EncodeFlushEncoder \/ EncodeFlushEncoderFail
    \/ EncodeWriteTrailer \/ EncodeWriteTrailerFail

SpecEncode == EncodeInit /\ [][EncodeNext]_vars

-----------------------------------------------------------------------------
(* Claims about encode_pcm_data, checked under SpecEncode *)

IsChunkFrame(f) == f.kind = "chunk"
IsFlushFrame(f) == f.kind = "flush"
IsSentFrame(f) == f.sent
IsSentChunkFrame(f) == f.kind = "chunk" /\ f.sent

chunk_frames == SelectSeq(frames, IsChunkFrame)
flush_frames == SelectSeq(frames, IsFlushFrame)
sent_frames == SelectSeq(frames, IsSentFrame)

\* ceil(m / f) for f >= 1, by its defining inequalities
CeilDiv(m, f) == CHOOSE c \in 0..m : c * f >= m /\ (c = 0 \/ (c - 1) * f < m)

\* the batching locals are set and the call has not failed
batching == enc_pc \in {"chunk", "flush", "trailer", "done"}

\* C7 as stated: a call that ends Ok has sent ceil(M/F) non-empty chunk
\* frames to the encoder, and at most one frame of the resampler's flush.
EncodeSendsEveryChunk ==
    enc_pc = "done" =>
        /\ num_batches = CeilDiv(num_samples(enc_env), enc_env.frame_size)
        /\ Len(SelectSeq(frames, IsSentChunkFrame)) = num_batches
        /\ Len(flush_frames) <= 1

\* C7 amended: the track is batched into ceil(M/F) chunks, each resampled
\* once and in order; only non-empty resampled frames are sent, so a call
\* that ends Ok has sent at most ceil(M/F) chunk frames and at most one
\* frame of the single resampler flush.
EncodeBatching ==
    /\ (batching =>
          /\ enc_env.frame_size >= 1
          /\ num_batches = CeilDiv(num_samples(enc_env), enc_env.frame_size)
          /\ Len(chunk_frames) = batch_i
          /\ batch_i <= num_batches
          /\ \A k \in 1..Len(chunk_frames) : chunk_frames[k].chunk = k - 1
          /\ Len(flush_frames) = (IF enc_pc = "chunk" THEN 0 ELSE 1))
    /\ \A k \in 1..Len(frames) : frames[k].sent <=> frames[k].nb_samples > 0
    /\ Len(sent_frames) <= Len(chunk_frames) + Len(flush_frames)
    /\ (enc_pc = "done" =>
          /\ Len(chunk_frames) = num_batches
          /\ Len(SelectSeq(frames, IsSentChunkFrame)) <= num_batches
          /\ Len(sent_frames) <= num_batches + 1)

\* C7 witness: a call that ended Ok after two or more chunks, one of which
\* resampled to an empty frame and was not sent, while the flush frame was.
EncodeBatchingWitness ==
    /\ enc_pc = "done"
    /\ num_batches >= 2
    /\ \E k \in 1..Len(frames) : frames[k].kind = "chunk" /\ ~frames[k].sent
    /\ \E k \in 1..Len(frames) : frames[k].kind = "chunk" /\ frames[k].sent
    /\ frames[Len(frames)].kind = "flush"
    /\ frames[Len(frames)].sent

RECURSIVE SumNbSamples(_, _)
\* output samples of the first k frames the resampler produced
SumNbSamples(fs, k) ==
    IF k = 0 THEN 0 ELSE SumNbSamples(fs, k - 1) + fs[k].nb_samples

\* C8: every frame, chunk or flush, is stamped with the number of output
\* samples of all frames produced before it; so of two successive frames
\* sent the later one's timestamp exceeds the earlier one's by the earlier
\* one's sample count, and the frames the encoder holds are in that order.
PtsIsRunningTotal ==
    /\ \A k \in 1..Len(frames) : frames[k].pts = SumNbSamples(frames, k - 1)
    /\ \A k \in 2..Len(sent_frames) :
          /\ sent_frames[k].pts = sent_frames[k - 1].pts + sent_frames[k - 1].nb_samples
          /\ sent_frames[k].pts > sent_frames[k - 1].pts
    /\ \A k \in 2..Len(packets_written) :
          packets_written[k].enc_pts > packets_written[k - 1].enc_pts

\* C8 witness: a call that ended Ok in which a chunk frame was sent with a
\* timestamp that is neither its chunk index times the frame size nor the
\* number of input samples before it, and the flush frame was sent too.
PtsIsRunningTotalWitness ==
    /\ enc_pc = "done"
    /\ Len(sent_frames) >= 3
    /\ \E k \in 2..Len(frames) :
          /\ frames[k].kind = "chunk"
          /\ frames[k].sent
          /\ frames[k].pts # frames[k].chunk * enc_env.frame_size
    /\ frames[Len(frames)].sent
    /\ frames[Len(frames)].pts = SumNbSamples(frames, Len(frames) - 1)

\* C9: a call with an empty track sends no frame and meets no arithmetic
\* fault; when it ends Ok the header was written, the encoder flushed and
\* the trailer written, and no packet was written.
EmptyTrackEncodes ==
    num_samples(enc_env) = 0 =>
        /\ enc_pc # "panic"
        /\ sent_frames = <<>>
        /\ (enc_pc = "done" =>
              /\ num_batches = 0
              /\ packets_written = <<>>
              /\ enc_ops = <<"find_encoder", "apply_codecpar", "set_time_base", "open",
                             "create_output">>
                           \o (IF enc_env.global_header THEN <<"set_flags">> ELSE <<>>)
                           \o <<"new_stream", "write_header", "init_resample",
                                "flush_resampler", "flush_encoder", "write_trailer">>)

\* C10: the encode context's time base is 1/sample_rate of the codec
\* parameters, the stream's time base is the source's, and every packet
\* written carries its encoder timestamp rescaled from the former to the
\* latter: it names the same instant, to within half a tick.
TimeBasesAndRescale ==
    LET rate_tb == [num |-> 1, den |-> enc_env.sample_rate] IN
    /\ (encode_context.opened => encode_context.time_base = rate_tb)
    /\ (out_stream.created => out_stream.time_base = enc_env.time_base)
    /\ \A k \in 1..Len(packets_written) :
          LET p == packets_written[k] IN
          /\ p.from_tb = rate_tb
          /\ p.to_tb = enc_env.time_base
          /\ p.pts = av_rescale_q(p.enc_pts, rate_tb, enc_env.time_base)
          /\ LET d == p.pts * p.to_tb.num * enc_env.sample_rate - p.enc_pts * p.to_tb.den
             IN  2 * (IF d >= 0 THEN d ELSE -d) <= p.to_tb.num * enc_env.sample_rate

\* C10 witness: a call that ended Ok whose source time base is finer than
\* 1/sample_rate and that wrote a packet whose timestamp the rescaling
\* changed.
TimeBasesAndRescaleWitness ==
    /\ enc_pc = "done"
    /\ enc_env.time_base.den # enc_env.sample_rate
    /\ \E k \in 1..Len(packets_written) :
          /\ packets_written[k].enc_pts > 0
          /\ packets_written[k].pts # packets_written[k].enc_pts

\* the number of times op was performed
CountOp(op) == Cardinality({ i \in 1..Len(enc_ops) : enc_ops[i] = op })

\* the position of the first op in the log, 0 if it was not performed
FirstOp(op) ==
    IF CountOp(op) = 0 THEN 0
    ELSE CHOOSE i \in 1..Len(enc_ops) :
            enc_ops[i] = op /\ \A j \in 1..(i - 1) : enc_ops[j] # op

\* C12: when the output format requires global headers, the flag is set on
\* the encode context before the encode context is opened.
GlobalHeaderBeforeOpen ==
    (enc_env.global_header /\ CountOp("open") > 0) =>
        /\ CountOp("set_flags") > 0
        /\ FirstOp("set_flags") < FirstOp("open")

\* the operations of a call that ends Ok, in order
OpsOfOkCall ==
    <<"find_encoder", "apply_codecpar", "set_time_base", "open", "create_output">>
    \o (IF enc_env.global_header THEN <<"set_flags">> ELSE <<>>)
    \o <<"new_stream", "write_header", "init_resample">>
    \o [i \in 1..num_batches |-> "convert_frame"]
    \o <<"flush_resampler", "flush_encoder", "write_trailer">>

EncodeStepsInOrder ==
    \* the header is written once, before any frame is made or packet written
    /\ CountOp("write_header") <= 1
    /\ (frames # <<>> \/ packets_written # <<>> \/ enc_queue # <<>>)
          => CountOp("write_header") = 1
    \* chunk frames are made in increasing chunk order, the flush frame last
    /\ frames = chunk_frames \o flush_frames
    /\ \A k \in 1..Len(chunk_frames) : chunk_frames[k].chunk = k - 1
    /\ Len(flush_frames) <= 1
    \* packets are written in the order of the frames sent
    /\ IsPrefix([k \in 1..Len(packets_written) |-> packets_written[k].enc_pts],
                [k \in 1..Len(sent_frames) |-> sent_frames[k].pts])
    \* the trailer is the last thing done
    /\ CountOp("write_trailer") > 0 => enc_pc = "done"
    /\ enc_pc = "done" =>
          /\ enc_ops = OpsOfOkCall
          /\ CountOp("write_header") = 1
          /\ CountOp("flush_resampler") = 1
          /\ CountOp("flush_encoder") = 1
          /\ CountOp("write_trailer") = 1
          /\ Len(chunk_frames) = num_batches
          /\ Len(flush_frames) = 1
          /\ enc_queue = <<>>
          /\ Len(packets_written) = Len(sent_frames)
    \* a failed call has returned its error; no trailer was written, and
    \* what was written of the output file stays
    /\ enc_pc = "err" =>
          /\ enc_error # ""
          /\ CountOp("write_trailer") = 0
          /\ IsPrefix(enc_ops, OpsOfOkCall)
    /\ enc_pc # "err" => enc_error = ""

\* a step that fails does nothing else, and nothing follows a failure or
\* the trailer
EncodeStopsAtFailure ==
    /\ enc_pc \notin {"err", "done"}
    /\ enc_pc' = "err" =>
          UNCHANGED <<enc_ops, frames, packets_written, enc_queue, out_stream>>

\* C13: a call that ends Ok wrote the header once before any packet, made
\* the chunk frames in increasing chunk order, flushed the resampler once,
\* flushed the encoder once so that every packet it held is written, and
\* wrote the trailer once and last; a call that fails returns the error
\* at once, does nothing after it, writes no trailer and leaves what it
\* wrote of the output file.
EncodeOrderAndFailure == []EncodeStepsInOrder /\ [][EncodeStopsAtFailure]_vars

\* C13 witness: a call with two chunks and a resampler flush frame ended Ok
\* with three packets written, one of them at the encoder's flush
EncodeOrderAndFailureWitness ==
    /\ enc_pc = "done"
    /\ num_batches = 2
    /\ Len(flush_frames) = 1
    /\ flush_frames[1].sent
    /\ Len(packets_written) = 3
    /\ enc_env.global_header

\* C13 witness of the failure case: the call failed in the chunk loop
\* after packets were written
EncodeFailedMidwayWitness ==
    /\ enc_pc = "err"
    /\ enc_error = "Write frame failed."
    /\ packets_written # <<>>
    /\ batch_i < num_batches

\* C17: at the start of iteration i of the chunk loop the byte offset of
\* the slice, i * frame_size * stride, is sample_offset * stride, with
\* sample_offset = i * frame_size <= M, and the slice lies within pcm_data;
\* every chunk but the last has frame_size samples, the last has
\* M - (num_batches - 1) * frame_size, between 1 and frame_size; when the
\* loop has ended sample_offset = M = floor(len(pcm_data) / stride): every
\* whole sample was handed to the resampler once, in order, and the bytes
\* after the last whole sample were not used.
ChunkLoopInvariant ==
    LET F == enc_env.frame_size
        M == num_samples(enc_env)
        begin == batch_i * size_per_batch(enc_env)
        ps == process_samples(enc_env, sample_offset)
    IN  /\ F >= 1 => enc_pc # "panic"
        /\ batching =>
              /\ F >= 1
              /\ M * sample_size <= enc_env.pcm_len
              /\ enc_env.pcm_len < (M + 1) * sample_size
              /\ num_batches = CeilDiv(M, F)
              /\ batch_i <= num_batches
              /\ batch_i < num_batches =>
                    /\ sample_offset = batch_i * F
                    /\ sample_offset < M
                    /\ begin = sample_offset * sample_size
                    /\ ps \in 1..F
                    /\ begin + ps * sample_size <= M * sample_size
              /\ batch_i = num_batches => sample_offset = M
              /\ enc_pc # "chunk" => batch_i = num_batches
              /\ swr.consumed = sample_offset
              /\ Len(chunk_frames) = batch_i
              /\ \A k \in 1..Len(chunk_frames) :
                    /\ chunk_frames[k].chunk = k - 1
                    /\ chunk_frames[k].in_samples
                          = (IF k < num_batches THEN F ELSE M - (num_batches - 1) * F)
                    /\ chunk_frames[k].in_samples \in 1..F

\* C17 witness: a track of whole samples followed by bytes of a partial
\* one, batched into full chunks and a shorter last chunk, encoded to the end
ChunkLoopInvariantWitness ==
    /\ enc_pc = "done"
    /\ enc_env.pcm_len % sample_size # 0
    /\ num_batches >= 2
    /\ Len(chunk_frames) = num_batches
    /\ chunk_frames[num_batches].in_samples < enc_env.frame_size
    /\ sample_offset = num_samples(enc_env)

-----------------------------------------------------------------------------
(* decode_audio, src/src/decode.rs 109-168, with decode_resample_save,     *)
(* lines 30-71. Sample rates are scaled down as in SpecEncode: the PCM     *)
(* rate main asks for is ScaledPcmRate.                                    *)

\* (a variant that feeds the decoder whatever was read)
is_selected_any(packet, stream_index) == TRUE
\* line 146: packet.stream_index == stream_index as i32
is_selected(packet, stream_index) == packet.stream_index = stream_index

\* lines 41-42: the frame the decoder makes of a packet
decoded_frame(packet, env) == [packet |-> packet.id, nb_samples |-> env.nb_samples]

\* lines 47-53: AVSamples::new(nb_channels, frame.nb_samples, sample_fmt, 0)
output_samples_nb(frame) == frame.nb_samples

\* samples_to_pcm, lines 17-28: nb_channels * nb_samples * sample_size bytes
\* of the samples buffer, nb_samples being the size it was allocated with
samples_to_pcm_len(nb_samples) == PcmChannels * nb_samples * PcmSampleSize

\* Samples the resampler can hand out once it has taken n more samples of
\* the source: all that the rate conversion yields of its input so far,
\* less what it has handed out already.
dec_swr_available(sw, n, env) ==
    ((sw.consumed + n) * ScaledPcmRate) \div env.sample_rate - sw.emitted

\* lines 55-64: convert(out, out_count, in, in_count) returns the number of
\* samples written to out, at most out_count; a conversion of format alone
\* returns in_count, one that changes the rate may also hold samples back.
convert_counts(sw, out_count, in_count, env) ==
    IF env.sample_rate = ScaledPcmRate
    THEN {Min(in_count, out_count)}
    ELSE Max(0, Min(dec_swr_available(sw, in_count, env), out_count) - MaxDelay)
            ..Min(dec_swr_available(sw, in_count, env), out_count)

\* receive_frame reports drain (or, after end of stream, flushed) instead
\* of a frame: the decoder may keep up to MaxDelay frames until end of
\* stream and keeps none after it
may_drain(queue, flushing) ==
    IF flushing THEN queue = <<>> ELSE Len(queue) <= MaxDelay

RECURSIVE pcm_len(_)
\* the length of the PCM buffer in bytes
pcm_len(data) ==
    IF data = <<>> THEN 0 ELSE data[Len(data)].bytes + pcm_len(SubSeq(data, 1, Len(data) - 1))

\* (a variant that hands back the parameters and what was decoded so far)
decode_error_result_partial(what, data) ==
    [status |-> "Ok", error |-> what, has_parameters |-> TRUE, pcm_data |-> data]
\* `?` in decode_audio and decode_resample_save: Err(..) is returned, the
\* captured parameters and the buffer are dropped with the other locals
decode_error_result(what, data) ==
    [status |-> "Err", error |-> what, has_parameters |-> FALSE, pcm_data |-> <<>>]

LogEntry(op, arg, converted) == [op |-> op, arg |-> arg, converted |-> converted]

\* The input file as the codec engine presents it: its packets in read
\* order, each of one of two streams; the stream find_best_stream selects;
\* the sample rate of that stream and the size of the frames its decoder
\* makes.
DecodeInputs ==
    [ packets      : UNION { [1..l -> 0..1] : l \in 0..MaxPackets },
      stream_index : 0..1,
      sample_rate  : 1..MaxCodecRate,
      nb_samples   : 1..MaxFrameSamples ]

\* the i-th packet read_packet returns
packet_at(env, i) == [id |-> i, stream_index |-> env.packets[i]]

(* SpecDecode: main calls decode_audio and goes on with what it returns *)

\* the models SpecDecode is run with: what follows decoding is the subject
\* of Spec, which takes every model
DecodeModels == {"2stems"}

DecodeInit ==
    /\ PlanIdle
    /\ SplitIdle
    /\ EncIdle
    /\ main_pc = "decode"
    /\ model_name \in DecodeModels
    /\ audio_extension = "wav"
    /\ infer_mode = "tagged"
    /\ audio_data = [nb_channels |-> 0, sample_rate |-> 0, samples |-> <<>>]
    /\ encode_calls = <<>>
    /\ dec_pc = "open"
    /\ dec_env \in DecodeInputs
    /\ dec_pos = 0
    /\ dec_flushing = FALSE
    /\ dec_queue = <<>>
    /\ dec_swr = [consumed |-> 0, emitted |-> 0]
    /\ pcm_data = <<>>
    /\ dec_result = NoDecodeResult
    /\ dec_log = <<>>

\* `?`: the error is returned, nothing later is done
DecodeFail(at, what) ==
    /\ dec_pc = at
    /\ dec_pc' = "returned"
    /\ dec_result' = decode_error_result(what, pcm_data)
    /\ UNCHANGED <<dec_env, dec_pos, dec_flushing, dec_queue, dec_swr, pcm_data,
                   dec_log, planVars, mainVars, splitVars, encVars>>

\* lines 114-140: the file is opened, the stream selected, its parameters
\* captured, the contexts made, the buffer created empty
DecodeOpen ==
    /\ dec_pc = "open"
    /\ pcm_data' = <<>>
    /\ dec_pc' = "read"
    /\ UNCHANGED <<dec_env, dec_pos, dec_flushing, dec_queue, dec_swr, dec_result,
                   dec_log, planVars, mainVars, splitVars, encVars>>

DecodeOpenFail ==
    \E what \in {"Open audio file failed.", "Find best stream failed.",
                 "Cannot find audio stream in this file.",
                 "Init decode context failed.", "Init resample context failed"} :
        DecodeFail("open", what)

\* lines 142-154 and 37-39: a packet is read; if it is of the selected
\* stream it is sent to the decoder, whose frames are then received
DecodeReadPacket ==
    /\ dec_pc = "read"
    /\ dec_pos < Len(dec_env.packets)
    /\ LET packet == packet_at(dec_env, dec_pos + 1) IN
          IF is_selected(packet, dec_env.stream_index)
          THEN /\ dec_queue' = Append(dec_queue, decoded_frame(packet, dec_env))
               /\ dec_log' = dec_log \o <<LogEntry("read_packet", packet.id, 0),
                                          LogEntry("send_packet", packet.id, 0)>>
               /\ dec_pc' = "receive"
          ELSE /\ dec_queue' = dec_queue
               /\ dec_log' = Append(dec_log, LogEntry("read_packet", packet.id, 0))
               /\ dec_pc' = "read"
    /\ dec_pos' = dec_pos + 1
    /\ UNCHANGED <<dec_env, dec_flushing, dec_swr, pcm_data, dec_result,
                   planVars, mainVars, splitVars, encVars>>

\* line 144: read_packet fails
DecodeReadPacketFail == DecodeFail("read", "Read packet failed")

\* lines 37-39: send_packet fails, for a packet or for end of stream
DecodeSendPacketFail ==
    /\ \/ dec_pos = Len(dec_env.packets)
       \/ /\ dec_pos < Len(dec_env.packets)
          /\ is_selected(packet_at(dec_env, dec_pos + 1), dec_env.stream_index)
    /\ DecodeFail("read", "Send packet failed.")

\* lines 142 and 158-165 with 37-39: read_packet returns None, the loop
\* ends and end of stream is sent to the decoder
DecodeEndOfFile ==
    /\ dec_pc = "read"
    /\ dec_pos = Len(dec_env.packets)
    /\ dec_log' = dec_log \o <<LogEntry("read_packet", 0, 0), LogEntry("send_eos", 0, 0)>>
    /\ dec_flushing' = TRUE
    /\ dec_pc' = "receive"
    /\ UNCHANGED <<dec_env, dec_pos, dec_queue, dec_swr, pcm_data, dec_result,
                   planVars, mainVars, splitVars, encVars>>

\* lines 41-68: a frame is received, converted into a samples buffer of
\* frame.nb_samples samples, and the whole buffer is appended
DecodeReceiveFrame ==
    /\ dec_pc = "receive"
    /\ dec_queue # <<>>
    /\ LET frame == Head(dec_queue)
           nb    == output_samples_nb(frame)
       IN  \E k \in convert_counts(dec_swr, nb, frame.nb_samples, dec_env) :
              /\ dec_swr' = [consumed |-> dec_swr.consumed + frame.nb_samples,
                             emitted  |-> dec_swr.emitted + k]
              /\ pcm_data' = Append(pcm_data, [frame |-> frame.packet,
                                               bytes |-> samples_to_pcm_len(nb)])
              /\ dec_log' = Append(dec_log, LogEntry("receive_frame", frame.packet, k))
    /\ dec_queue' = Tail(dec_queue)
    /\ dec_pc' = "receive"
    /\ UNCHANGED <<dec_env, dec_pos, dec_flushing, dec_result,
                   planVars, mainVars, splitVars, encVars>>

\* lines 44, 53, 63: receive_frame fails otherwise than by drain or
\* flushed, or the samples buffer cannot be made, or convert fails
DecodeReceiveFrameFail ==
    \E what \in {"Receive frame failed.", "Create samples buffer failed.",
                 "Convert sample failed."} :
        DecodeFail("receive", what)

\* line 43: receive_frame reports drain or flushed and the loop of
\* decode_resample_save ends; after end of stream decode_audio returns
\* the parameters and the buffer, line 167
DecodeDrained ==
    /\ dec_pc = "receive"
    /\ may_drain(dec_queue, dec_flushing)
    /\ IF dec_flushing
       THEN /\ dec_log' = Append(dec_log, LogEntry("flushed", 0, 0))
            /\ dec_result' = [status |-> "Ok", error |-> "", has_parameters |-> TRUE,
                              pcm_data |-> pcm_data]
            /\ dec_pc' = "returned"
       ELSE /\ dec_log' = Append(dec_log, LogEntry("drain", 0, 0))
            /\ dec_result' = dec_result
            /\ dec_pc' = "read"
    /\ UNCHANGED <<dec_env, dec_pos, dec_flushing, dec_queue, dec_swr, pcm_data,
                   planVars, mainVars, splitVars, encVars>>

\* main.rs 49-61: decode_audio returned Ok; every four bytes of the buffer
\* become one float of the interleaved stereo samples
DecodeMainOk ==
    /\ main_pc = "decode"
    /\ dec_pc = "returned"
    /\ dec_result.status = "Ok"
    /\ audio_data' =
          [ nb_channels |-> PcmChannels,
            sample_rate |-> ScaledPcmRate,
            samples |-> [k \in 1..(pcm_len(dec_result.pcm_data) \div PcmSampleSize)
                            |-> InputSample(k - 1)] ]
    /\ main_pc' = "split"
    /\ UNCHANGED <<model_name, audio_extension, infer_mode, encode_calls,
                   planVars, splitVars, encVars, decVars>>

\* main.rs 50: decode_audio(..).context("Decode audio failed.")?
DecodeMainErr ==
    /\ main_pc = "decode"
    /\ dec_pc = "returned"
    /\ dec_result.status = "Err"
    /\ main_pc' = "failed"
    /\ UNCHANGED <<model_name, audio_extension, infer_mode, audio_data, encode_calls,
                   planVars, splitVars, encVars, decVars>>

DecodeNext ==
    \/ DecodeOpen \/ DecodeOpenFail
    \/ DecodeReadPacket \/ DecodeReadPacketFail \/ DecodeSendPacketFail
    \/ DecodeEndOfFile
    \/ DecodeReceiveFrame \/ DecodeReceiveFrameFail
    \/ DecodeDrained
    \/ DecodeMainOk \/ DecodeMainErr
    \/ AfterDecode

SpecDecode == DecodeInit /\ [][DecodeNext]_vars

-----------------------------------------------------------------------------
(* Claims about decode_audio, checked under SpecDecode *)

\* the arguments of the calls of op, in the order they were made
LogArgs(op) ==
    LET sel == SelectSeq(dec_log, LAMBDA e : e.op = op)
    IN  [k \in 1..Len(sel) |-> sel[k].arg]

\* the ids of the packets of the selected stream among the first n read
RECURSIVE SelectedIds(_)
SelectedIds(n) ==
    IF n = 0 THEN <<>>
    ELSE SelectedIds(n - 1)
            \o (IF dec_env.packets[n] = dec_env.stream_index THEN <<n>> ELSE <<>>)

\* C14: the packets of the selected stream, and no others, are sent to the
\* decoder in read order; after each the frames are received until the
\* decoder reports drain; once read_packet has returned the last packet,
\* end of stream is sent once and the frames received until the decoder
\* reports flushed; every frame received, in either phase, is converted and
\* appended to the buffer in the order received.
DecodeFeedsSelectedInOrder ==
    \* every packet is read once, in order
    /\ SelectSeq(LogArgs("read_packet"), LAMBDA a : a # 0) = [k \in 1..dec_pos |-> k]
    \* those of the selected stream are sent, in read order, and no other
    /\ LogArgs("send_packet") = SelectedIds(dec_pos)
    /\ \A i \in 1..Len(dec_log) :
          /\ dec_log[i].op = "send_packet" =>
                /\ i > 1
                /\ dec_log[i - 1] = LogEntry("read_packet", dec_log[i].arg, 0)
          \* a packet is read only when the frames of the one before it
          \* were received up to the decoder's drain report
          /\ (dec_log[i].op = "read_packet" /\ i > 1) =>
                \/ dec_log[i - 1].op = "drain"
                \/ /\ dec_log[i - 1].op = "read_packet"
                   /\ dec_env.packets[dec_log[i - 1].arg] # dec_env.stream_index
          /\ dec_log[i].op = "drain" =>
                \E j \in 1..(i - 1) :
                   /\ dec_log[j].op = "send_packet"
                   /\ \A l \in (j + 1)..(i - 1) : dec_log[l].op = "receive_frame"
          /\ dec_log[i].op = "flushed" =>
                /\ i = Len(dec_log)
                /\ \E j \in 1..(i - 1) :
                      /\ dec_log[j].op = "send_eos"
                      /\ \A l \in (j + 1)..(i - 1) : dec_log[l].op = "receive_frame"
          \* end of stream is sent when read_packet has returned None
          /\ dec_log[i].op = "send_eos" =>
                /\ i > 1
                /\ dec_log[i - 1] = LogEntry("read_packet", 0, 0)
                /\ dec_pos = Len(dec_env.packets)
    /\ Len(LogArgs("send_eos")) = (IF dec_flushing THEN 1 ELSE 0)
    \* the frames come out in the order of the packets and each is
    \* converted and appended as it is received
    /\ IsPrefix(LogArgs("receive_frame"), LogArgs("send_packet"))
    /\ [k \in 1..Len(pcm_data) |-> pcm_data[k].frame] = LogArgs("receive_frame")
    /\ dec_swr.consumed = Len(pcm_data) * dec_env.nb_samples
    /\ dec_result.status = "Ok" =>
          /\ dec_pos = Len(dec_env.packets)
          /\ Len(LogArgs("send_eos")) = 1
          /\ Len(LogArgs("flushed")) = 1
          /\ LogArgs("receive_frame") = SelectedIds(Len(dec_env.packets))
          /\ dec_queue = <<>>
          /\ dec_result.pcm_data = pcm_data

\* C14 witness: the first packet is of another stream and is not sent; the
\* second is sent, the decoder reports drain and hands its frame out only
\* after end of stream
DecodeFeedsSelectedInOrderWitness ==
    /\ dec_result.status = "Ok"
    /\ Len(dec_env.packets) = 2
    /\ dec_env.packets[1] # dec_env.stream_index
    /\ dec_env.packets[2] = dec_env.stream_index
    /\ [k \in 1..Len(dec_log) |-> dec_log[k].op]
          = <<"read_packet", "read_packet", "send_packet", "drain",
              "read_packet", "send_eos", "receive_frame", "flushed">>
    /\ Len(pcm_data) = 1
    /\ pcm_data[1].frame = 2

\* C14 witness: two packets of the selected stream, the frame of each
\* received before the next is read
DecodeTwoPacketsWitness ==
    /\ dec_result.status = "Ok"
    /\ [k \in 1..Len(dec_log) |-> dec_log[k].op]
          = <<"read_packet", "send_packet", "receive_frame", "drain",
              "read_packet", "send_packet", "receive_frame", "drain",
              "read_packet", "send_eos", "flushed">>
    /\ [k \in 1..Len(pcm_data) |-> pcm_data[k].frame] = <<1, 2>>

\* the failures decode_audio returns
DecodeErrors ==
    {"Open audio file failed.", "Find best stream failed.",
     "Cannot find audio stream in this file.", "Init decode context failed.",
     "Init resample context failed", "Read packet failed", "Send packet failed.",
     "Receive frame failed.", "Create samples buffer failed.", "Convert sample failed."}

DecodeFailureReturnsNothing ==
    \* a step failed: Err is returned, without parameters and without buffer
    /\ dec_result.error # "" =>
          /\ dec_result.error \in DecodeErrors
          /\ dec_pc = "returned"
          /\ dec_result.status = "Err"
          /\ ~dec_result.has_parameters
          /\ dec_result.pcm_data = <<>>
          \* and main runs neither segmentation nor encoding
          /\ main_pc \in {"decode", "failed"}
          /\ audio_data.samples = <<>>
          /\ split_pc = "idle"
          /\ run_log = <<>>
          /\ encode_calls = <<>>
    \* main goes past decoding only with a buffer decode_audio returned whole
    /\ main_pc \notin {"decode", "failed"} =>
          /\ dec_result.status = "Ok"
          /\ dec_result.error = ""
    /\ dec_result.status = "Ok" =>
          /\ dec_result.has_parameters
          /\ dec_result.pcm_data = pcm_data
          /\ dec_log # <<>>
          /\ dec_log[Len(dec_log)].op = "flushed"

\* a drain or flushed report ends the receive loop and is no failure; after
\* a failure main returns its error and nothing else happens
DecodeSignalsAreBenign ==
    /\ (dec_log' # dec_log /\ dec_log'[Len(dec_log')].op = "drain") =>
          /\ dec_pc = "receive"
          /\ dec_pc' = "read"
          /\ dec_result' = NoDecodeResult
          /\ pcm_data' = pcm_data
    /\ (dec_log' # dec_log /\ dec_log'[Len(dec_log')].op = "flushed") =>
          /\ dec_pc = "receive"
          /\ dec_pc' = "returned"
          /\ dec_result'.status = "Ok"
          /\ dec_result'.pcm_data = pcm_data
    /\ dec_result.error # "" =>
          /\ main_pc' = "failed"
          /\ UNCHANGED <<decVars, splitVars, encVars, audio_data, encode_calls>>

\* C15: the decoder's drain and flushed reports only end the current
\* receive loop and never make decode_audio fail; any other receive_frame
\* error, any send_packet or read_packet error and any allocation or
\* conversion error makes decode_audio return an error, with no source
\* parameters and no PCM buffer, not even a partial one; main then runs
\* neither segmentation nor encoding.
DecodeFailureIsFatal == []DecodeFailureReturnsNothing /\ [][DecodeSignalsAreBenign]_vars

\* C15 witness: the first packet's frame was received and appended and the
\* decoder reported drain; the conversion of the second packet's frame
\* failed, and main has returned the error
DecodeFailureIsFatalWitness ==
    /\ main_pc = "failed"
    /\ dec_result.status = "Err"
    /\ dec_result.error = "Convert sample failed."
    /\ Len(pcm_data) = 1
    /\ dec_result.pcm_data = <<>>
    /\ [k \in 1..Len(dec_log) |-> dec_log[k].op]
          = <<"read_packet", "send_packet", "receive_frame", "drain",
              "read_packet", "send_packet">>

\* the number of samples convert returned for each frame received
ConvertedCounts ==
    LET sel == SelectSeq(dec_log, LAMBDA e : e.op = "receive_frame")
    IN  [k \in 1..Len(sel) |-> sel[k].converted]

\* C16: for every frame received, the bytes appended to the buffer are the
\* samples the conversion returned for it: their count is that number of
\* samples * channel count * bytes per sample; hence the length of the
\* buffer is the number of samples the resampler has put out so far
\* * channel count * bytes per sample.
DecodeAppendsWhatWasConverted ==
    /\ Len(ConvertedCounts) = Len(pcm_data)
    /\ \A k \in 1..Len(pcm_data) :
          pcm_data[k].bytes = ConvertedCounts[k] * PcmChannels * PcmSampleSize
    /\ pcm_len(pcm_data) = dec_swr.emitted * PcmChannels * PcmSampleSize

=============================================================================
